---- MODULE Spec2Model ----
(***************************************************************************)
(* A model of the learn-linalg toolkit: the structural helpers of          *)
(* qrdecomp/utils.py, the eigen routines of linalg/eigen (single.py,       *)
(* multi.py), the partial-pivoting LU exercised by tests/test_lu.py and    *)
(* the click handlers of imagealign/main.py.                               *)
(*                                                                         *)
(* Arrays are 1-based sequences here; numpy's 0-based index k is position  *)
(* k+1.  A matrix is a sequence of rows.                                   *)
(***************************************************************************)
EXTENDS Integers, Sequences, FiniteSets, TLC

VARIABLES
  \* imagealign/main.py: the fields of InteractiveImage
  counter, prev, curr, temp, coords, handlers, lastOp,
  \* qrdecomp/utils.py: the last helper call, its arguments and its outcome
  ucall,
  \* the LU factorisation under test: its input, the elimination step it is
  \* at, its working factors and what decompose() returned
  luA, luK, luSt, luOut,
  \* linalg/eigen: the running routine, its arguments, locals and result
  routine, pc, args, callerA, origA, Aref, written, it, slot, steps, draws,
  eigvals, eigvecs, computed, outcome

imgVars  == <<counter, prev, curr, temp, coords, handlers, lastOp>>
utilVars == <<ucall>>
luVars   == <<luA, luK, luSt, luOut>>
eigVars  == <<routine, pc, args, callerA, origA, Aref, written, it, slot, steps,
              draws, eigvals, eigvecs, computed, outcome>>
vars     == <<imgVars, utilVars, luVars, eigVars>>

(***************************************************************************)
(* Bounds of the model.                                                    *)
(***************************************************************************)
MaxClicks   == 6   \* on_click runs explored per session
MaxHandlers == 3   \* button_press_event registrations explored
MaxX        == 3   \* canvas columns: the left image, then the right image
MaxDim      == 3   \* largest n of basis_vec/basis_arr, longest vector of norm
MaxKs       == 3   \* longest index list given to basis_arr
MaxP        == 2   \* largest norm order p
MaxEntry    == 2   \* largest entry of the helpers' array arguments
MaxSq       == 2   \* largest square matrix given to unit_diag and norm
MaxN        == 3   \* largest matrix given to an eigen routine
MaxIter     == 2   \* largest max_iter given to an eigen routine
MaxEig      == 1   \* largest magnitude of a computed eigenvalue
MaxLUEntry  == 1   \* largest entry of the matrices given to LU

Range(n) == 1..n

Max(a, b) == IF a >= b THEN a ELSE b

Abs(a) == IF a < 0 THEN -a ELSE a

RECURSIVE SeqsUpTo(_, _)
\* every sequence over S of length at most n
SeqsUpTo(S, n) ==
  IF n = 0 THEN {<<>>}
  ELSE LET shorter == SeqsUpTo(S, n - 1)
       IN  shorter \cup {Append(s, x) : s \in {t \in shorter : Len(t) = n - 1}, x \in S}

\* every r x c matrix with entries in S
Mats(r, c, S) == [Range(r) -> [Range(c) -> S]]

(***************************************************************************)
(* imagealign/main.py: InteractiveImage                                    *)
(***************************************************************************)
\* The two images sit side by side on the canvas (plt.subplots(nrows=1,
\* ncols=N)); the buttons sit in a strip below them.  event.inaxes follows
\* from where the click fell: y = 0 is the button strip, y = 1 the images,
\* the left image taking the first half of the columns.
Events == [x : 1..MaxX, y : 0..1]

inaxes(ev) ==
  IF ev.y = 0 THEN "none"
  ELSE IF ev.x <= MaxX \div 2 THEN "ax0" ELSE "ax1"

Fields == [counter |-> counter, prev |-> prev, curr |-> curr,
           temp |-> temp, coords |-> coords]

\* __init__: counter = 0, prev = 1, curr = None, temp = [], coords = []
InitFields == [counter |-> 0, prev |-> "1", curr |-> "None",
               temp |-> <<>>, coords |-> <<>>]

\* the guard of on_click that rejects a left click following a left click
LeftNeverRepeated(s) == FALSE

LeftRepeated(s) == s.curr = s.prev

\* on_click(self, event), as a function of the fields
on_click(s, ev) ==
  LET s1 == [s EXCEPT !.counter = @ + 1]
      pt == <<ev.x, ev.y>>
  IN  IF inaxes(ev) = "ax0"
      THEN LET s2 == [s1 EXCEPT !.curr = "0"]
           IN  IF LeftRepeated(s2) THEN s2
               ELSE [s2 EXCEPT !.temp = Append(@, pt), !.prev = s2.curr]
      ELSE IF inaxes(ev) = "ax1"
      THEN IF s1.counter = 1 THEN s1
           ELSE LET s2 == [s1 EXCEPT !.curr = "1"]
                IN  IF s2.curr = s2.prev THEN s2
                    ELSE [s2 EXCEPT !.coords = Append(@, Append(s2.temp, pt)),
                                    !.temp = <<>>,
                                    !.prev = s2.curr]
      ELSE s1

RECURSIVE Deliver(_, _, _)
\* the canvas calls each registered on_click callback in turn
Deliver(s, ev, d) == IF d = 0 THEN s ELSE Deliver(on_click(s, ev), ev, d - 1)

\* A button_press_event.  draw() connects on_click again on every call, so
\* the canvas may hold up to `handlers` registrations of it; the canvas may
\* also keep one registration per distinct callback, so the event runs
\* on_click between 1 and `handlers` times.
button_press_event(ev, d) ==
  /\ d \in 1..handlers
  /\ counter + d <= MaxClicks
  /\ LET s == Deliver(Fields, ev, d)
     IN  /\ counter' = s.counter
         /\ prev' = s.prev
         /\ curr' = s.curr
         /\ temp' = s.temp
         /\ coords' = s.coords
  /\ lastOp' = "on_click"
  /\ UNCHANGED <<handlers, utilVars, luVars, eigVars>>

\* on_clear(self, event), with the draw() it ends with
on_clear ==
  /\ handlers < MaxHandlers
  /\ temp' = <<>>
  /\ coords' = <<>>
  /\ counter' = 0
  /\ prev' = "1"
  /\ curr' = "None"
  /\ handlers' = handlers + 1
  /\ lastOp' = "on_clear"
  /\ UNCHANGED <<utilVars, luVars, eigVars>>

ImgInit ==
  /\ counter = InitFields.counter
  /\ prev = InitFields.prev
  /\ curr = InitFields.curr
  /\ temp = InitFields.temp
  /\ coords = InitFields.coords
  /\ handlers = 1
  /\ lastOp = "__init__"

UtilIdle == ucall = [op |-> "none"]

LUIdle == luA = <<>> /\ luK = 0 /\ luSt = <<>> /\ luOut = [status |-> "none"]

\* the arguments of an eigen routine; a routine reads only its own
DefaultArgs == [k |-> 0, max_iter |-> 0, sort |-> FALSE, hess |-> FALSE,
                calc_q |-> FALSE, mu |-> <<0, 1>>]

EigIdle ==
  /\ routine = "none" /\ pc = "idle" /\ args = DefaultArgs
  /\ callerA = <<>> /\ origA = <<>> /\ Aref = "caller" /\ written = {}
  /\ it = 0 /\ slot = 0 /\ steps = 0 /\ draws = 0
  /\ eigvals = <<>> /\ eigvecs = <<>> /\ computed = <<>> /\ outcome = "none"

ImgIdle == ImgInit

InitImg == ImgInit /\ UtilIdle /\ LUIdle /\ EigIdle

NextImg ==
  \/ \E ev \in Events, d \in 1..MaxHandlers : button_press_event(ev, d)
  \/ on_clear

SpecImg == InitImg /\ [][NextImg]_vars

\* C10: temp holds at most one point and it is a click on the left image;
\* every element of coords is a list of exactly two points, a left-image click
\* then a right-image click; and on_clear leaves temp, coords, counter, prev
\* and curr at their initial values [], [], 0, 1, None.
OnLeft(pt) == inaxes([x |-> pt[1], y |-> pt[2]]) = "ax0"

OnRight(pt) == inaxes([x |-> pt[1], y |-> pt[2]]) = "ax1"

C10_PairsInvariant ==
  /\ Len(temp) <= 1
  /\ \A i \in DOMAIN temp : OnLeft(temp[i])
  /\ \A i \in DOMAIN coords :
       /\ Len(coords[i]) = 2
       /\ OnLeft(coords[i][1])
       /\ OnRight(coords[i][2])
  /\ (lastOp = "on_clear" => Fields = InitFields)

\* a pair was completed after a clear and a new left click is pending
C10_Witness ==
  /\ handlers > 1
  /\ Len(coords) >= 1
  /\ Len(temp) = 1
  /\ lastOp = "on_click"

(***************************************************************************)
(* qrdecomp/utils.py                                                       *)
(***************************************************************************)
\* A numpy array: its shape and its entries in row-major order.
Scalar(a) == [shape |-> <<>>, data |-> <<a>>]

Vector(v) == [shape |-> <<Len(v)>>, data |-> v]

RECURSIVE Concat(_)
Concat(rows) == IF rows = <<>> THEN <<>> ELSE Head(rows) \o Concat(Tail(rows))

Matrix2D(m) ==
  [shape |-> <<Len(m), IF Len(m) = 0 THEN 0 ELSE Len(m[1])>>, data |-> Concat(m)]

ndim(a) == Len(a.shape)

\* np.array(x).flatten(): always one-dimensional, whatever the shape of x
flatten(a) == [shape |-> <<Len(a.data)>>, data |-> a.data]

RECURSIVE Pow(_, _)
Pow(b, e) == IF e <= 0 THEN 1 ELSE b * Pow(b, e - 1)

RECURSIVE SumPow(_, _)
\* summer.add(np.power(np.abs(v[i]), p)) over i: the sum of |v_i|^p
SumPow(v, p) == IF v = <<>> THEN 0 ELSE Pow(Abs(Head(v)), p) + SumPow(Tail(v), p)

\* norm(x, p).  The value returned is np.power(sum, 1/p); it is kept as the
\* pair (sum, p), the root of an integer having no integer value.
norm(x, p) ==
  LET v == flatten(x)
  IN  IF ndim(v) # 1 THEN [status |-> "AssertionError", msg |-> "x must be 1D"]
      ELSE IF ~(p >= 1) THEN [status |-> "AssertionError", msg |-> "p must be >= 1"]
      ELSE [status |-> "ok", sum |-> SumPow(v.data, p), root |-> p]

\* unit_diag(A): writes 1 on the diagonal of the array it was given and
\* returns that same array.  arg is the caller's array after the call, ret
\* the returned array, same tells whether they are one object.
unit_diag(A) ==
  LET filled == [i \in DOMAIN A |-> [j \in DOMAIN A[i] |-> IF i = j THEN 1 ELSE A[i][j]]]
  IN  [arg |-> filled, ret |-> filled, same |-> TRUE]

\* basis_vec(k, n)
basis_vec(k, n) ==
  IF ~(k < n) THEN [status |-> "AssertionError"]
  ELSE [status |-> "ok",
        b |-> [i \in Range(n) |-> [j \in Range(1) |-> IF i = k + 1 THEN 1 ELSE 0]]]

\* np.max(ks); raises ValueError on an empty list
SeqMax(ks) == CHOOSE m \in {ks[i] : i \in DOMAIN ks} : \A i \in DOMAIN ks : ks[i] <= m

\* basis_arr(ks, n): b = np.zeros([n, n]); b[i, k] = 1 for i, k in enumerate(ks)
basis_arr(ks, n) ==
  IF ks = <<>> THEN [status |-> "ValueError"]
  ELSE IF ~(SeqMax(ks) < n) THEN [status |-> "AssertionError"]
  ELSE IF Len(ks) > n THEN [status |-> "IndexError"]
  ELSE [status |-> "ok",
        b |-> [i \in Range(n) |->
                 [j \in Range(n) |-> IF i <= Len(ks) /\ j = ks[i] + 1 THEN 1 ELSE 0]]]

Entries == 0..MaxEntry

SignedEntries == (-MaxEntry)..MaxEntry

Bits == 0..1

SquareInputs == UNION {Mats(n, n, Entries) : n \in 0..MaxSq}

NormInputs ==
  {Scalar(a) : a \in SignedEntries}
    \cup {Vector(v) : v \in SeqsUpTo(SignedEntries, MaxDim)}
    \cup {Matrix2D(m) : m \in UNION {Mats(r, c, Bits) : r \in 1..MaxSq, c \in 1..MaxSq}}

call_norm ==
  /\ ucall.op = "none"
  /\ \E x \in NormInputs, p \in (-1)..MaxP :
    /\ ucall' = [op |-> "norm", x |-> x, p |-> p, res |-> norm(x, p)]
    /\ UNCHANGED <<imgVars, luVars, eigVars>>

call_unit_diag ==
  /\ ucall.op = "none"
  /\ \E A \in SquareInputs :
    /\ ucall' = [op |-> "unit_diag", A |-> A, res |-> unit_diag(A)]
    /\ UNCHANGED <<imgVars, luVars, eigVars>>

call_basis_vec ==
  /\ ucall.op = "none"
  /\ \E k \in 0..MaxDim, n \in 0..MaxDim :
    /\ ucall' = [op |-> "basis_vec", k |-> k, n |-> n, res |-> basis_vec(k, n)]
    /\ UNCHANGED <<imgVars, luVars, eigVars>>

call_basis_arr ==
  /\ ucall.op = "none"
  /\ \E ks \in SeqsUpTo(0..MaxDim, MaxKs), n \in 0..MaxDim :
    /\ ucall' = [op |-> "basis_arr", ks |-> ks, n |-> n, res |-> basis_arr(ks, n)]
    /\ UNCHANGED <<imgVars, luVars, eigVars>>

InitUtil == ImgIdle /\ UtilIdle /\ LUIdle /\ EigIdle

NextUtil == call_norm \/ call_unit_diag \/ call_basis_vec \/ call_basis_arr

SpecUtil == InitUtil /\ [][NextUtil]_vars

\* C3: unit_diag(A) returns a copy with every diagonal entry 1 and every
\* off-diagonal entry A's, and leaves the caller's matrix as it was.
C3_UnitDiagReturnsCopy ==
  ucall.op = "unit_diag" =>
    /\ \A i \in DOMAIN ucall.A : \A j \in DOMAIN ucall.A :
         ucall.res.ret[i][j] = IF i = j THEN 1 ELSE ucall.A[i][j]
    /\ ucall.res.arg = ucall.A
    /\ ~ucall.res.same

\* C4: norm(x, p) fails whenever p < 1 or x is not one-dimensional, and
\* returns a value only when x is one-dimensional and p >= 1.
C4_NormRejectsBadInput ==
  ucall.op = "norm" =>
    (ucall.res.status = "ok" <=> (ndim(ucall.x) = 1 /\ ucall.p >= 1))

\* the standard basis vector e_k of R^n as a sequence (numpy index k)
e_(k, n) == [i \in Range(n) |-> IF i = k + 1 THEN 1 ELSE 0]

Column(m, j) == [i \in DOMAIN m |-> m[i][j]]

\* C8: basis_vec and basis_arr fail if an index is >= n; otherwise basis_vec
\* returns the n x 1 column e_k, and basis_arr succeeds for every list of
\* in-range indices, of any length, column i of its result being e_{ks[i]}.
C8_BasisColumns ==
  /\ ucall.op = "basis_vec" =>
       IF ucall.k >= ucall.n THEN ucall.res.status # "ok"
       ELSE /\ ucall.res.status = "ok"
            /\ Len(ucall.res.b) = ucall.n
            /\ \A i \in Range(ucall.n) : Len(ucall.res.b[i]) = 1
            /\ Column(ucall.res.b, 1) = e_(ucall.k, ucall.n)
  /\ ucall.op = "basis_arr" =>
       IF \E i \in DOMAIN ucall.ks : ucall.ks[i] >= ucall.n
       THEN ucall.res.status # "ok"
       ELSE /\ ucall.res.status = "ok"
            /\ \A i \in DOMAIN ucall.ks :
                 /\ i <= Len(ucall.res.b[1])
                 /\ Column(ucall.res.b, i) = e_(ucall.ks[i], ucall.n)

(***************************************************************************)
(* LU(A, pivoting='partial').decompose(), as tests/test_lu.py exercises    *)
(* it.  The arithmetic is exact: a number is a fraction <<num, den>> in    *)
(* lowest terms with den > 0, and <<0, 0>> is what a division by zero      *)
(* leaves (inf or NaN), which every later operation propagates.            *)
(***************************************************************************)
RECURSIVE GCD(_, _)
GCD(a, b) == IF b = 0 THEN a ELSE GCD(b, a % b)

NaN == <<0, 0>>

IsNaN(q) == q[2] = 0

Frac(n, d) ==
  IF d = 0 THEN NaN
  ELSE LET g == GCD(Abs(n), Abs(d))
           sgn == IF d < 0 THEN -1 ELSE 1
       IN  <<sgn * (n \div g), sgn * (d \div g)>>

FInt(n) == <<n, 1>>

FAdd(p, q) == IF IsNaN(p) \/ IsNaN(q) THEN NaN ELSE Frac(p[1] * q[2] + q[1] * p[2], p[2] * q[2])

FSub(p, q) == IF IsNaN(p) \/ IsNaN(q) THEN NaN ELSE Frac(p[1] * q[2] - q[1] * p[2], p[2] * q[2])

FMul(p, q) == IF IsNaN(p) \/ IsNaN(q) THEN NaN ELSE Frac(p[1] * q[1], p[2] * q[2])

FDiv(p, q) == IF IsNaN(p) \/ IsNaN(q) THEN NaN ELSE Frac(p[1] * q[2], p[2] * q[1])

\* |p| > |q| for numbers that are not NaN
FAbsGt(p, q) == Abs(p[1]) * q[2] > Abs(q[1]) * p[2]

RECURSIVE FSum(_, _, _)
\* f(1) + ... + f(n), added on to acc
FSum(f, n, acc) == IF n = 0 THEN acc ELSE FSum(f, n - 1, FAdd(acc, f[n]))

\* the matrix product of two n x n matrices of fractions
MatMul(X, Y, n) ==
  [i \in Range(n) |-> [j \in Range(n) |->
     FSum([t \in Range(n) |-> FMul(X[i][t], Y[t][j])], n, FInt(0))]]

ToFrac(A) == [i \in DOMAIN A |-> [j \in DOMAIN A[i] |-> FInt(A[i][j])]]

Identity(n) == [i \in Range(n) |-> [j \in Range(n) |-> IF i = j THEN FInt(1) ELSE FInt(0)]]

\* the row of the largest-magnitude entry of column kk at or below the
\* diagonal; the first such row when several tie
PivotRowNoSearch(U, kk, n) == kk

PivotRow(U, kk, n) ==
  CHOOSE r \in kk..n :
    /\ \A i \in kk..n : ~FAbsGt(U[i][kk], U[r][kk])
    /\ \A i \in kk..(r - 1) : FAbsGt(U[r][kk], U[i][kk])

Swap(i, a, b) == IF i = a THEN b ELSE IF i = b THEN a ELSE i

\* the rows of U, the finished columns of L and the row record, with rows kk
\* and r exchanged
SwapRows(st, kk, r, n) ==
  [rows |-> [i \in Range(n) |-> st.rows[Swap(i, kk, r)]],
   L |-> [i \in Range(n) |-> [j \in Range(n) |->
            IF j < kk THEN st.L[Swap(i, kk, r)][j] ELSE st.L[i][j]]],
   U |-> [i \in Range(n) |-> st.U[Swap(i, kk, r)]]]

\* the multipliers of column kk: U[i][kk] / U[kk][kk] for the rows below kk
Multipliers(U, kk, n) ==
  [i \in Range(n) |-> IF i > kk THEN FDiv(U[i][kk], U[kk][kk]) ELSE FInt(0)]

\* the multipliers stored in column kk of L, and their multiples of row kk
\* subtracted from the rows of U below it
Reduce(st, m, kk, n) ==
  [rows |-> st.rows,
   L |-> [i \in Range(n) |-> [j \in Range(n) |->
            IF i > kk /\ j = kk THEN m[i] ELSE st.L[i][j]]],
   U |-> [i \in Range(n) |-> [j \in Range(n) |->
            IF i > kk THEN FSub(st.U[i][j], FMul(m[i], st.U[kk][j])) ELSE st.U[i][j]]]]

\* one elimination step on column kk of st = [rows, L, U]; rows[i] is the row
\* of A that now stands in row i
Eliminate(st, kk, n) ==
  LET sw == SwapRows(st, kk, PivotRow(st.U, kk, n), n)
      m  == Multipliers(sw.U, kk, n)
  IN  Reduce(sw, m, kk, n)

\* the permutation matrix returned as P: the factors multiply back to A in
\* the order P, L, U (the convention of the reference factorisation the test
\* compares with), so P carries row rows[j] of the product to row j of A
PermOfRows(rows, n) ==
  [i \in Range(n) |-> [j \in Range(n) |-> IF i = rows[j] THEN FInt(1) ELSE FInt(0)]]

LUSizes == 1..3

LUEntries == (-1)..MaxLUEntry

\* LU(A, pivoting='partial'): the working factors start as P = I, L = I, U = A
LU_init ==
  /\ luOut.status = "none" /\ luK = 0
  /\ \E n \in LUSizes : \E A \in Mats(n, n, LUEntries) :
    /\ luA' = A
    /\ luK' = 1
    /\ luSt' = [rows |-> [i \in Range(n) |-> i], L |-> Identity(n), U |-> ToFrac(A)]
    /\ luOut' = luOut
    /\ UNCHANGED <<imgVars, utilVars, eigVars>>

\* decompose(): one elimination step per column but the last
LU_eliminate ==
  /\ luOut.status = "none" /\ luK >= 1 /\ luK < Len(luA)
  /\ luSt' = Eliminate(luSt, luK, Len(luA))
  /\ luK' = luK + 1
  /\ UNCHANGED <<luA, luOut, imgVars, utilVars, eigVars>>

\* what decompose() returns
LU_result(st, n) == [status |-> "ok", P |-> PermOfRows(st.rows, n), L |-> st.L, U |-> st.U]

\* decompose() -> (P, L, U)
LU_decompose ==
  /\ luOut.status = "none" /\ luK >= 1 /\ luK >= Len(luA)
  /\ luOut' = LU_result(luSt, Len(luA))
  /\ UNCHANGED <<luA, luK, luSt, imgVars, utilVars, eigVars>>

InitLU == ImgIdle /\ UtilIdle /\ LUIdle /\ EigIdle

NextLU == LU_init \/ LU_eliminate \/ LU_decompose

SpecLU == InitLU /\ [][NextLU]_vars

IsPermutationMatrix(P, n) ==
  /\ \A i \in Range(n) : \A j \in Range(n) : P[i][j] \in {FInt(0), FInt(1)}
  /\ \A i \in Range(n) : Cardinality({j \in Range(n) : P[i][j] = FInt(1)}) = 1
  /\ \A j \in Range(n) : Cardinality({i \in Range(n) : P[i][j] = FInt(1)}) = 1

IsUnitLower(L, n) ==
  \A i \in Range(n) : \A j \in Range(n) :
    /\ i = j => L[i][j] = FInt(1)
    /\ i < j => L[i][j] = FInt(0)
    /\ i > j => ~IsNaN(L[i][j])

IsUpper(U, n) ==
  \A i \in Range(n) : \A j \in Range(n) :
    /\ ~IsNaN(U[i][j])
    /\ i > j => U[i][j] = FInt(0)

\* every multiplier is at most 1 in magnitude: each pivot was the
\* largest-magnitude entry of its column
PivotsAreLargest(L, n) ==
  \A i \in Range(n) : \A j \in Range(n) : i > j => ~FAbsGt(L[i][j], FInt(1))

Factorises(out, A) ==
  LET n == Len(A)
  IN  /\ IsPermutationMatrix(out.P, n)
      /\ IsUnitLower(out.L, n)
      /\ IsUpper(out.U, n)
      /\ PivotsAreLargest(out.L, n)
      /\ MatMul(out.P, MatMul(out.L, out.U, n), n) = ToFrac(A)

\* no elimination step met a zero pivot: no entry of L or U is NaN
NoZeroPivot(out) ==
  \A i \in DOMAIN out.L : \A j \in DOMAIN out.L :
    ~IsNaN(out.L[i][j]) /\ ~IsNaN(out.U[i][j])

\* C9 as stated: for every square A the partial-pivoting factors are a
\* permutation matrix P, a unit-lower-triangular L and an upper-triangular U
\* with P.L.U = A, each pivot being the largest-magnitude entry of its column.
C9_EverySquareMatrix ==
  luOut.status = "ok" => Factorises(luOut, luA)

\* C9 amended: the same, for every A whose elimination meets no zero pivot
\* (every non-singular A among them).
C9_NonZeroPivots ==
  (luOut.status = "ok" /\ NoZeroPivot(luOut)) => Factorises(luOut, luA)

\* a 3 x 3 input whose rows were permuted cyclically, so that P differs from
\* its transpose
C9_Witness ==
  /\ luOut.status = "ok"
  /\ NoZeroPivot(luOut)
  /\ Len(luA) = 3
  /\ luOut.P # [i \in Range(3) |-> [j \in Range(3) |-> luOut.P[j][i]]]

(***************************************************************************)
(* linalg/eigen/single.py and linalg/eigen/multi.py                        *)
(*                                                                         *)
(* What is kept of the arithmetic: the entries of the caller's matrix,     *)
(* which array object each name is bound to, which objects are assigned    *)
(* in place, the loop counters, and the shapes and the order of the        *)
(* results.  The vectors start from np.random.randn, so a computed         *)
(* eigenvalue is any number (NaN among them, which a division by a zero    *)
(* norm leaves), a convergence test may go either way, and component r of  *)
(* the vector found for slot t is the symbol <<t, r>>.                     *)
(***************************************************************************)
QRMaxIter == 1000

SymInput(n) == [i \in Range(n) |-> [j \in Range(n) |-> i + j]]

AsymInput(n) ==
  [i \in Range(n) |-> [j \in Range(n) |-> IF i = 1 /\ j = n THEN i + j + 1 ELSE i + j]]

EigInputs == {SymInput(n) : n \in 1..MaxN} \cup {AsymInput(n) : n \in 2..MaxN}

\* utils.is_symmetric(A): np.allclose(A, A.T), exact on these integer entries
is_symmetric(A) == \A i \in DOMAIN A : \A j \in DOMAIN A : A[i][j] = A[j][i]

\* A.shape[0]
N == Len(callerA)

EigVals == {FInt(x) : x \in (-MaxEig)..MaxEig} \cup {NaN}

Zero == <<0, 0>>

Comp(t, r) == <<t, r>>

\* the column holding the vector found for slot t
VecColumn(t, n) == [r \in Range(n) |-> Comp(t, r)]

SetColumn(m, c, col) ==
  [r \in DOMAIN m |-> [j \in DOMAIN m[r] |-> IF j = c THEN col[r] ELSE m[r][j]]]

AllEntries(n) == Range(n) \X Range(n)

Routines == {"power_iteration", "inverse_iteration", "rayleigh_quotient_iteration",
             "projected_iteration", "hessenberg", "qr_algorithm", "eig"}

Entry(r) ==
  CASE r = "power_iteration" -> "pi_begin"
    [] r = "inverse_iteration" -> "ii_begin"
    [] r = "rayleigh_quotient_iteration" -> "rq_begin"
    [] r = "projected_iteration" -> "pj_assert_symm"
    [] r = "hessenberg" -> "hs_begin"
    [] r = "qr_algorithm" -> "qr_begin"
    [] r = "eig" -> "eig_begin"

ArgsOf(r, n) ==
  CASE r \in {"power_iteration", "inverse_iteration", "rayleigh_quotient_iteration"} ->
         {[DefaultArgs EXCEPT !.max_iter = m] : m \in 0..MaxIter}
    [] r = "projected_iteration" ->
         {[DefaultArgs EXCEPT !.k = k, !.max_iter = m, !.sort = b] :
            k \in 0..(n + 1), m \in 0..MaxIter, b \in BOOLEAN}
    [] r = "hessenberg" -> {[DefaultArgs EXCEPT !.calc_q = b] : b \in BOOLEAN}
    [] r = "qr_algorithm" ->
         {[DefaultArgs EXCEPT !.hess = h, !.sort = b] : h \in BOOLEAN, b \in BOOLEAN}
    [] r = "eig" -> {[DefaultArgs EXCEPT !.sort = b] : b \in BOOLEAN}

others == <<imgVars, utilVars, luVars>>

\* a caller passes its matrix to one of the routines
Call ==
  /\ pc = "idle"
  /\ \E A \in EigInputs, r \in Routines :
       \E a \in ArgsOf(r, Len(A)) :
         /\ routine' = r
         /\ args' = a
         /\ callerA' = A
         /\ origA' = A
         /\ pc' = Entry(r)
  /\ UNCHANGED <<Aref, written, it, slot, steps, draws, eigvals, eigvecs, computed,
                 outcome, others>>

\* The array objects.  "caller" is the array the caller passed; every other
\* object is created inside the call: "np.array(A)" by hessenberg,
\* "A.copy()" by inverse_iteration, "temp" by an expression such as
\* A - mu*np.eye(M), "A_new" by R @ Q + mu*np.eye(M), "v" by np.random.randn
\* or A @ v, "Q" by np.eye(M).
WriteVals == {0, -1}

Assign(m, region, w) ==
  [i \in DOMAIN m |-> [j \in DOMAIN m[i] |-> IF <<i, j>> \in region THEN w ELSE m[i][j]]]

\* The objects objs are assigned in place on the entries `region`, or handed
\* to LU, QR or solve, which are free to overwrite what they are given.
Stores(objs, region) ==
  \E w \in WriteVals :
    /\ callerA' = IF "caller" \in objs THEN Assign(callerA, region, w) ELSE callerA
    /\ written' = written \cup objs

\* a failed assert, or an exception, ends the call
Raise(kind) == pc' = "done" /\ outcome' = kind

\* ------------------------------------------------------ single.py
\* power_iteration, lines 20-21: the assert and the random start
power_iteration_begin ==
  /\ pc = "pi_begin"
  /\ IF is_symmetric(callerA)
     THEN draws' = draws + 1 /\ pc' = "pi_loop" /\ outcome' = outcome
     ELSE draws' = draws /\ Raise("AssertionError")
  /\ UNCHANGED <<routine, args, callerA, origA, Aref, written, it, slot, steps,
                 eigvals, eigvecs, computed, others>>

\* lines 22-24: v = A @ v; v /= utils.l2_norm(v)
power_iteration_step ==
  /\ pc = "pi_loop" /\ it < args.max_iter
  /\ Stores({"v"}, {})
  /\ it' = it + 1
  /\ steps' = steps + 1
  /\ UNCHANGED <<routine, pc, args, origA, Aref, slot, draws, eigvals, eigvecs,
                 computed, outcome, others>>

\* what a single-eigenpair routine returns: (e, v)
ReturnPair(e) ==
  /\ eigvals' = <<e>>
  /\ eigvecs' = [r \in Range(N) |-> <<Comp(1, r)>>]
  /\ computed' = <<e>>
  /\ outcome' = "ok"
  /\ pc' = "done"

\* lines 25-26: e = rayleigh_quotient(A, v); return e, v
power_iteration_return ==
  /\ pc = "pi_loop" /\ it >= args.max_iter
  /\ \E e \in EigVals : ReturnPair(e)
  /\ UNCHANGED <<routine, args, callerA, origA, Aref, written, it, slot, steps,
                 draws, others>>

\* the matrix inverse_iteration hands to LU: A.copy()
LUArg(ref) == "A.copy()"

\* inverse_iteration, lines 38-40: the assert, the random start and
\* PLU = LU(A.copy(), pivoting='partial').decompose()
inverse_iteration_begin ==
  /\ pc = "ii_begin"
  /\ IF is_symmetric(callerA)
     THEN /\ draws' = draws + 1 /\ pc' = "ii_loop" /\ outcome' = outcome
          /\ Stores({LUArg(Aref)}, AllEntries(N))
     ELSE /\ draws' = draws /\ Raise("AssertionError")
          /\ UNCHANGED <<callerA, written>>
  /\ UNCHANGED <<routine, args, origA, Aref, it, slot, steps, eigvals, eigvecs,
                 computed, others>>

\* lines 41-43: v = solve(PLU, v); v /= utils.l2_norm(v)
inverse_iteration_step ==
  /\ pc = "ii_loop" /\ it < args.max_iter
  /\ Stores({"v"}, {})
  /\ it' = it + 1
  /\ steps' = steps + 1
  /\ UNCHANGED <<routine, pc, args, origA, Aref, slot, draws, eigvals, eigvecs,
                 computed, outcome, others>>

\* lines 44-45: e = rayleigh_quotient(A, v); return e, v
inverse_iteration_return ==
  /\ pc = "ii_loop" /\ it >= args.max_iter
  /\ \E e \in EigVals : ReturnPair(e)
  /\ UNCHANGED <<routine, args, callerA, origA, Aref, written, it, slot, steps,
                 draws, others>>

\* the matrix of the shifted system: the new array A - mu*np.eye(n)
Shifted(ref) == "temp"

\* rayleigh_quotient_iteration, lines 58-59
rayleigh_quotient_iteration_begin ==
  /\ pc = "rq_begin"
  /\ IF is_symmetric(callerA)
     THEN draws' = draws + 1 /\ pc' = "rq_loop" /\ outcome' = outcome
     ELSE draws' = draws /\ Raise("AssertionError")
  /\ UNCHANGED <<routine, args, callerA, origA, Aref, written, it, slot, steps,
                 eigvals, eigvecs, computed, others>>

\* lines 60-63: v = solve(A - mu*np.eye(n), v); v /= utils.l2_norm(v);
\* mu = rayleigh_quotient(A, v)
rayleigh_quotient_iteration_step ==
  /\ pc = "rq_loop" /\ it < args.max_iter
  /\ Stores({Shifted(Aref), "v"}, AllEntries(N))
  /\ \E mu \in EigVals : args' = [args EXCEPT !.mu = mu]
  /\ it' = it + 1
  /\ steps' = steps + 1
  /\ UNCHANGED <<routine, pc, origA, Aref, slot, draws, eigvals, eigvecs, computed,
                 outcome, others>>

\* line 64: return mu, v
rayleigh_quotient_iteration_return ==
  /\ pc = "rq_loop" /\ it >= args.max_iter
  /\ ReturnPair(args.mu)
  /\ UNCHANGED <<routine, args, callerA, origA, Aref, written, it, slot, steps,
                 draws, others>>

\* ------------------------------------------------------ multi.py: hessenberg
\* A = np.array(A): the name A is bound to a new array holding a copy
np_array_no_copy(ref) == ref

np_array(ref) == "np.array(A)"

\* lines 76-80; utils.is_square holds of every matrix of EigInputs
hessenberg_begin ==
  /\ pc = "hs_begin"
  /\ Aref' = np_array(Aref)
  /\ slot' = 0
  /\ pc' = "hs_loop"
  /\ UNCHANGED <<routine, args, callerA, origA, written, it, steps, draws, eigvals,
                 eigvecs, computed, outcome, others>>

\* the entries A[i+1:, j] for j in range(i, M), numpy's i being i0
LeftRegion(i0, M) == ((i0 + 2)..M) \X ((i0 + 1)..M)

\* the entries A[j, i+1:M] for j in range(i if is_symm else 0, M)
RightRegion(i0, M, is_symm) == ((IF is_symm THEN i0 + 1 ELSE 1)..M) \X ((i0 + 2)..M)

\* lines 81-93: one Householder reflection, applied from the left and then
\* from the right to the array A names
hessenberg_reflect ==
  /\ pc = "hs_loop" /\ slot < N - 2
  /\ Stores({Aref}, LeftRegion(slot, N) \cup RightRegion(slot, N, is_symmetric(origA)))
  /\ slot' = slot + 1
  /\ UNCHANGED <<routine, pc, args, origA, Aref, it, steps, draws, eigvals, eigvecs,
                 computed, outcome, others>>

\* lines 94-100: Q = np.eye(M) is filled when calc_q, and A (with Q) returned;
\* inside qr_algorithm the returned array becomes its A (line 119)
hessenberg_return ==
  /\ pc = "hs_loop" /\ slot >= N - 2
  /\ IF args.calc_q THEN Stores({"Q"}, AllEntries(N)) ELSE UNCHANGED <<callerA, written>>
  /\ slot' = 0
  /\ IF routine = "hessenberg"
     THEN pc' = "done" /\ outcome' = "ok"
     ELSE pc' = "qr_loop" /\ outcome' = outcome
  /\ UNCHANGED <<routine, args, origA, Aref, it, steps, draws, eigvals, eigvecs,
                 computed, others>>

\* ------------------------------------------------------ sorting
Perms(n) == {f \in [Range(n) -> Range(n)] : \A i \in Range(n) : \A j \in Range(n) : f[i] = f[j] => i = j}

\* the order np.abs(...).argsort() sorts by: magnitude, NaN after every number
SignedKeyLe(a, b) ==
  IsNaN(b) \/ (~IsNaN(a) /\ a[1] * b[2] <= b[1] * a[2])

AbsKeyLe(a, b) ==
  IsNaN(b) \/ (~IsNaN(a) /\ Abs(a[1]) * b[2] <= Abs(b[1]) * a[2])

\* np.abs(vals).argsort()[::-1]: an ascending order of the keys, reversed;
\* argsort's default sort settles ties either way
argsort_reversed(vals) ==
  LET n == Len(vals)
      ascending == {f \in Perms(n) :
                      \A i \in Range(n) : \A j \in Range(n) :
                        i < j => AbsKeyLe(vals[f[i]], vals[f[j]])}
  IN  {[i \in Range(n) |-> f[n + 1 - i]] : f \in ascending}

\* eigvecs[:, idx] raises IndexError unless every index names a column
ColumnsInRange(m, idx) == \A i \in DOMAIN idx : idx[i] <= Len(m[1])

\* eigvecs[:, idx]
TakeColumns(m, idx) == [r \in DOMAIN m |-> [j \in DOMAIN idx |-> m[r][idx[j]]]]

\* eigvals[idx]
TakeEntries(v, idx) == [j \in DOMAIN idx |-> v[idx[j]]]

\* the closing "if sort:" block of projected_iteration and of qr_algorithm,
\* and the return
SortAndReturn ==
  /\ IF args.sort
     THEN \E idx \in argsort_reversed(eigvals) :
            IF ColumnsInRange(eigvecs, idx)
            THEN /\ eigvecs' = TakeColumns(eigvecs, idx)
                 /\ eigvals' = TakeEntries(eigvals, idx)
                 /\ outcome' = "ok"
            ELSE /\ outcome' = "IndexError"
                 /\ UNCHANGED <<eigvals, eigvecs>>
     ELSE outcome' = "ok" /\ UNCHANGED <<eigvals, eigvecs>>
  /\ pc' = "done"

\* ------------------------------------------------------ multi.py: projected_iteration
\* line 26
projected_iteration_assert_symmetric ==
  /\ pc = "pj_assert_symm"
  /\ IF is_symmetric(callerA)
     THEN pc' = "pj_assert_k" /\ outcome' = outcome
     ELSE Raise("AssertionError")
  /\ UNCHANGED <<routine, args, callerA, origA, Aref, written, it, slot, steps,
                 draws, eigvals, eigvecs, computed, others>>

\* line 27: assert k > 0 and k <= A.shape[0]
ValidKLowerOnly(k, n) == k > 0

ValidK(k, n) == k > 0 /\ k <= n

projected_iteration_assert_k ==
  /\ pc = "pj_assert_k"
  /\ IF ValidK(args.k, N)
     THEN pc' = "pj_alloc" /\ outcome' = outcome
     ELSE Raise("AssertionError")
  /\ UNCHANGED <<routine, args, callerA, origA, Aref, written, it, slot, steps,
                 draws, eigvals, eigvecs, computed, others>>

\* lines 29-30: eigvecs = np.zeros((A.shape[0], k)); eigvals = np.zeros(A.shape[0])
projected_iteration_alloc ==
  /\ pc = "pj_alloc"
  /\ eigvecs' = [r \in Range(N) |-> [j \in Range(args.k) |-> Zero]]
  /\ eigvals' = [j \in Range(N) |-> FInt(0)]
  /\ slot' = 0
  /\ pc' = "pj_slot"
  /\ UNCHANGED <<routine, args, callerA, origA, Aref, written, it, steps, draws,
                 computed, outcome, others>>

\* lines 31-32: for i in range(k): v = np.random.randn(A.shape[0])
projected_iteration_slot ==
  /\ pc = "pj_slot" /\ slot < args.k
  /\ draws' = draws + 1
  /\ it' = 0
  /\ pc' = "pj_iter"
  /\ UNCHANGED <<routine, args, callerA, origA, Aref, written, slot, steps, eigvals,
                 eigvecs, computed, outcome, others>>

\* lines 33-44: one pass of the inner loop: v -= proj_sum, v_new = A @ v
\* normalised, then either the break or v = v_new
projected_iteration_step ==
  /\ pc = "pj_iter" /\ it < args.max_iter
  /\ Stores({"v"}, {})
  /\ it' = it + 1
  /\ steps' = steps + 1
  /\ \E converged \in BOOLEAN : pc' = IF converged THEN "pj_store" ELSE "pj_iter"
  /\ UNCHANGED <<routine, args, origA, Aref, slot, draws, eigvals, eigvecs, computed,
                 outcome, others>>

\* the inner loop ran max_iter times without a break
projected_iteration_exhausted ==
  /\ pc = "pj_iter" /\ it >= args.max_iter
  /\ pc' = "pj_store"
  /\ UNCHANGED <<routine, args, callerA, origA, Aref, written, it, slot, steps,
                 draws, eigvals, eigvecs, computed, outcome, others>>

\* lines 45-49: e = single.rayleigh_quotient(A, v); eigvecs[:, i] = v;
\* eigvals[i] = e
projected_iteration_store ==
  /\ pc = "pj_store"
  /\ \E e \in EigVals :
       /\ eigvals' = [eigvals EXCEPT ![slot + 1] = e]
       /\ computed' = Append(computed, e)
  /\ eigvecs' = SetColumn(eigvecs, slot + 1, VecColumn(slot + 1, N))
  /\ slot' = slot + 1
  /\ pc' = "pj_slot"
  /\ UNCHANGED <<routine, args, callerA, origA, Aref, written, it, steps, draws,
                 outcome, others>>

\* lines 51-57
projected_iteration_return ==
  /\ pc = "pj_slot" /\ slot >= args.k
  /\ SortAndReturn
  /\ UNCHANGED <<routine, args, callerA, origA, Aref, written, it, slot, steps,
                 draws, computed, others>>

\* ------------------------------------------------------ multi.py: qr_algorithm, eig
\* eig, line 145: qr_algorithm(A, hess=True, sort=sort)
eig ==
  /\ pc = "eig_begin"
  /\ args' = [args EXCEPT !.hess = TRUE]
  /\ pc' = "qr_begin"
  /\ UNCHANGED <<routine, callerA, origA, Aref, written, it, slot, steps, draws,
                 eigvals, eigvecs, computed, outcome, others>>

\* lines 116-120: the assert, backup = np.array(A), and the call of
\* hessenberg when hess
qr_algorithm_begin ==
  /\ pc = "qr_begin"
  /\ IF is_symmetric(callerA)
     THEN pc' = (IF args.hess THEN "hs_begin" ELSE "qr_loop") /\ outcome' = outcome
     ELSE Raise("AssertionError")
  /\ UNCHANGED <<routine, args, callerA, origA, Aref, written, it, slot, steps,
                 draws, eigvals, eigvecs, computed, others>>

\* lines 121-127: one QR step.  QR is given the new array A - mu*np.eye(M);
\* A_new = R @ Q + mu*np.eye(M) is another new array, which A names from
\* then on unless the loop breaks.
qr_algorithm_step ==
  /\ pc = "qr_loop" /\ it < QRMaxIter
  /\ Stores({Shifted(Aref)}, AllEntries(N))
  /\ it' = it + 1
  /\ \E converged \in BOOLEAN :
       IF converged
       THEN pc' = "qr_alloc" /\ Aref' = Aref
       ELSE pc' = "qr_loop" /\ Aref' = "A_new"
  /\ UNCHANGED <<routine, args, origA, slot, steps, draws, eigvals, eigvecs, computed,
                 outcome, others>>

\* range(1000) ran out
qr_algorithm_exhausted ==
  /\ pc = "qr_loop" /\ it >= QRMaxIter
  /\ pc' = "qr_alloc"
  /\ UNCHANGED <<routine, args, callerA, origA, Aref, written, it, slot, steps,
                 draws, eigvals, eigvecs, computed, outcome, others>>

\* lines 128-130: mus = utils.diag(A); eigvecs = np.zeros_like(A);
\* eigvals = np.zeros(A.shape[0]).  The loop counter is not read again.
qr_algorithm_alloc ==
  /\ pc = "qr_alloc"
  /\ eigvecs' = [r \in Range(N) |-> [j \in Range(N) |-> Zero]]
  /\ eigvals' = [j \in Range(N) |-> FInt(0)]
  /\ slot' = 0
  /\ it' = 0
  /\ pc' = "qr_pairs"
  /\ UNCHANGED <<routine, args, callerA, origA, Aref, written, steps, draws,
                 computed, outcome, others>>

\* lines 131-134: single.rayleigh_quotient_iteration(backup, mu, max_iter=1),
\* that is a random start and one step on the new array backup - mu*np.eye(n),
\* then eigvecs[:, i] = eigvec and eigvals[i] = eigval
qr_algorithm_pair ==
  /\ pc = "qr_pairs" /\ slot < N
  /\ draws' = draws + 1
  /\ Stores({Shifted("backup"), "v"}, AllEntries(N))
  /\ \E e \in EigVals :
       /\ eigvals' = [eigvals EXCEPT ![slot + 1] = e]
       /\ computed' = Append(computed, e)
  /\ eigvecs' = SetColumn(eigvecs, slot + 1, VecColumn(slot + 1, N))
  /\ slot' = slot + 1
  /\ UNCHANGED <<routine, pc, args, origA, Aref, it, steps, outcome, others>>

\* lines 135-139
qr_algorithm_return ==
  /\ pc = "qr_pairs" /\ slot >= N
  /\ SortAndReturn
  /\ UNCHANGED <<routine, args, callerA, origA, Aref, written, it, slot, steps,
                 draws, computed, others>>

InitEig == ImgIdle /\ UtilIdle /\ LUIdle /\ EigIdle

NextEig ==
  \/ Call
  \/ power_iteration_begin \/ power_iteration_step \/ power_iteration_return
  \/ inverse_iteration_begin \/ inverse_iteration_step \/ inverse_iteration_return
  \/ rayleigh_quotient_iteration_begin \/ rayleigh_quotient_iteration_step
  \/ rayleigh_quotient_iteration_return
  \/ projected_iteration_assert_symmetric \/ projected_iteration_assert_k
  \/ projected_iteration_alloc \/ projected_iteration_slot \/ projected_iteration_step
  \/ projected_iteration_exhausted \/ projected_iteration_store
  \/ projected_iteration_return
  \/ hessenberg_begin \/ hessenberg_reflect \/ hessenberg_return
  \/ eig \/ qr_algorithm_begin \/ qr_algorithm_step \/ qr_algorithm_exhausted
  \/ qr_algorithm_alloc \/ qr_algorithm_pair \/ qr_algorithm_return

SpecEig == InitEig /\ [][NextEig]_vars

(***************************************************************************)
(* The properties of the eigen routines.                                   *)
(***************************************************************************)
\* C1: for a symmetric N x N matrix and 1 <= k <= N, with either value of
\* sort, projected_iteration returns normally k eigenvalues and an N x k
\* matrix whose column i is the eigenvector found with eigenvalue i.
C1_ReturnsKPairs ==
  (/\ routine = "projected_iteration" /\ pc = "done"
   /\ is_symmetric(origA) /\ args.k >= 1 /\ args.k <= N)
  => /\ outcome = "ok"
     /\ Len(eigvals) = args.k
     /\ Len(eigvecs) = N
     /\ \A r \in Range(N) : Len(eigvecs[r]) = args.k
     /\ \A j \in Range(args.k) :
          \E t \in Range(args.k) :
            Column(eigvecs, j) = VecColumn(t, N) /\ eigvals[j] = computed[t]

\* C2: no eigen routine changes the matrix its caller passed: at every point
\* of every call the caller's array holds the entries it held at the call,
\* and it is not among the arrays written.
C2_CallerMatrixUnchanged ==
  routine \in Routines => (callerA = origA /\ "caller" \notin written)

\* eig has returned for a 3 x 3 matrix, having reduced its own copy in place
C2_Witness ==
  /\ routine = "eig" /\ pc = "done" /\ outcome = "ok"
  /\ N = 3
  /\ "np.array(A)" \in written

\* C5: for valid input none of the iterations fails: the loops of
\* power_iteration, inverse_iteration and rayleigh_quotient_iteration run at
\* most max_iter times, that of projected_iteration at most max_iter times per
\* slot and k*max_iter times in all, that of qr_algorithm at most 1000 times,
\* and each call ends with a normal result.
C5_NeverAnError ==
  (/\ routine \in {"power_iteration", "inverse_iteration",
                   "rayleigh_quotient_iteration", "projected_iteration",
                   "qr_algorithm"}
   /\ is_symmetric(origA)
   /\ routine = "projected_iteration" => (args.k >= 1 /\ args.k <= N))
  => /\ routine # "qr_algorithm" => (it <= args.max_iter /\ steps <= Max(args.k, 1) * args.max_iter)
     /\ routine = "qr_algorithm" => it <= 1000
     /\ pc = "done" => outcome = "ok"

\* |a| >= |b| as floating point decides it: false when either is NaN
AbsGe(a, b) == ~IsNaN(a) /\ ~IsNaN(b) /\ Abs(a[1]) * b[2] >= Abs(b[1]) * a[2]

\* the returned pairs are the computed pairs, one permutation applied to the
\* eigenvalues and to the columns
SamePairsPermuted ==
  \E f \in Perms(N) :
    \A j \in Range(N) :
      eigvals[j] = computed[f[j]] /\ Column(eigvecs, j) = VecColumn(f[j], N)

PairsInComputedOrder ==
  /\ eigvals = computed
  /\ \A j \in Range(N) : Column(eigvecs, j) = VecColumn(j, N)

QRReturned == routine \in {"qr_algorithm", "eig"} /\ pc = "done" /\ outcome = "ok"

\* C6 as stated: with sort=True the eigenvalues qr_algorithm and eig return
\* satisfy |e[i]| >= |e[i+1]| for every adjacent pair and the pairs are the
\* computed pairs under one permutation; with sort=False the pairs keep the
\* order of the converged diagonal.
C6_SortedByMagnitude ==
  QRReturned =>
    IF args.sort
    THEN /\ \A j \in Range(N - 1) : AbsGe(eigvals[j], eigvals[j + 1])
         /\ SamePairsPermuted
    ELSE PairsInComputedOrder

\* C6 amended: the same, the order holding for every adjacent pair of
\* eigenvalues neither of which is NaN, and the NaN eigenvalues coming first.
C6_SortedExceptNaN ==
  QRReturned =>
    IF args.sort
    THEN /\ \A j \in Range(N - 1) :
              \/ AbsGe(eigvals[j], eigvals[j + 1])
              \/ IsNaN(eigvals[j])
         /\ SamePairsPermuted
    ELSE PairsInComputedOrder

\* a sorted result of three pairs that were computed in another order, one
\* of the eigenvalues being NaN
C6_Witness ==
  /\ QRReturned /\ args.sort /\ N = 3
  /\ eigvals = <<NaN, FInt(-1), FInt(0)>>
  /\ computed = <<FInt(0), NaN, FInt(-1)>>

\* C7: when A is not symmetric or k is outside [1, N], projected_iteration
\* fails before a start vector is drawn, before an iteration step runs and
\* before a result array is filled, and returns nothing.
C7_FailsBeforeAnyWork ==
  (/\ routine = "projected_iteration"
   /\ (~is_symmetric(origA) \/ args.k <= 0 \/ args.k > N))
  => /\ pc \in {"pj_assert_symm", "pj_assert_k", "done"}
     /\ pc = "done" => outcome = "AssertionError"
     /\ outcome # "ok"
     /\ draws = 0 /\ steps = 0 /\ it = 0
     /\ computed = <<>> /\ eigvals = <<>> /\ eigvecs = <<>>

\* the call failed on k = N + 1 for a symmetric matrix
C7_Witness ==
  /\ routine = "projected_iteration" /\ pc = "done"
  /\ outcome = "AssertionError"
  /\ is_symmetric(origA) /\ args.k > N

====
